---- MODULE Spec2Model ----
(***************************************************************************)
(* GraphGuard schema registry: SchemaService.deploySchema and              *)
(* rollbackSchema over a PostgreSQL store (READ COMMITTED), the            *)
(* deployment ledger (DeploymentService) and the Apollo publish call.      *)
(*                                                                         *)
(* The committed store is `db`; a deploy runs inside one TypeORM           *)
(* transaction whose uncommitted writes live in the call's `tx` overlay.   *)
(* Statements issued through the transaction's manager read the overlay    *)
(* on top of the committed store; statements issued through an injected    *)
(* repository (deploymentRepo, schemaRepo, versionRepo) run on another     *)
(* connection and read the committed store only.                           *)
(***************************************************************************)
EXTENDS Integers, Sequences, FiniteSets, TLC

\* ------------------------------------------------------------------ bounds
\* requests served in a run
MaxCalls == 2

\* two requests may be in flight at once
Procs == {1, 2}

\* ------------------------------------------------------------- the universe
\* variants table: id -> row.  Variant "uB" carries a name that is shaped like
\* (and equal to) the uuid of variant "uA"; names are unique per customer only.
Variants == ("uA" :> [name |-> "prod"]) @@ ("uB" :> [name |-> "uA"])

\* strings a caller may pass as variantIdOrName: a uuid, a name, the name of no
\* variant
Idents == {"uA", "prod", "zz"}
SchemaNames == {"inventory", "orders"}
SDLs == {"sdlA", "sdlB"}
NameOrder == <<"inventory", "orders">>
SDLOrder == <<"sdlA", "sdlB">>
Label == "v1"
RollbackVariantIds == {"uA", "uB", "u0"}

\* answers of the Apollo platform to the publish mutation
Responses == {"accepted", "rejected", "nodata", "transport"}
CompositionErrors == <<"bad type">>
TransportMessage == <<"ECONNREFUSED">>

NoId == 0
NoRow == [none |-> TRUE]
NoReason == <<>>
Undefined == <<"undefined">>
Empty == <<>>
NoTx == [schemas |-> Empty, versions |-> Empty, deps |-> Empty, ptr |-> Empty]

\* a header that is not sent, and a request without the two key headers
NoKey == ""
NoHeaders == [lower |-> NoKey, upper |-> NoKey]

VARIABLES db, upstream, calls, call

vars == <<db, upstream, calls, call>>

\* ------------------------------------------------------------ pure helpers
\* line 99: the uuid test on the identifier
IsUuid(x) == x \in {"uA", "uB", "u0"}

\* a lookup that falls back to some variant when nothing matches
VariantCandidatesLax(x) ==
  IF \E v \in DOMAIN Variants : Variants[v].name = x \/ v = x
    THEN {v \in DOMAIN Variants : v = x \/ Variants[v].name = x}
    ELSE DOMAIN Variants

\* lines 100-104: the rows variantRepo.findOne may return (no ORDER BY: any
\* row that matches the where clause)
VariantCandidates(x) ==
  IF IsUuid(x)
    THEN {v \in DOMAIN Variants : v = x \/ Variants[v].name = x}
    ELSE {v \in DOMAIN Variants : Variants[v].name = x}

\* the generated uuids of the rows the k-th call may insert (schema, version,
\* deployment): fresh, never reused
SchemaUuid(k) == 3 * k + 1
VersionUuid(k) == 3 * k + 2
DeploymentUuid(k) == 3 * k + 3

\* a store whose stored versions are relabelled by every later write
OverlayRelabelling(t) ==
  LET s == t.schemas @@ db.schemas
  IN [schemas |-> [i \in DOMAIN s |->
                     IF i \in DOMAIN t.ptr
                       THEN [s[i] EXCEPT !.activeVersionId = t.ptr[i]]
                       ELSE s[i]],
      versions |-> t.versions @@
                     [i \in DOMAIN db.versions |->
                        [db.versions[i] EXCEPT !.versionLabel = "superseded"]],
      deps |-> t.deps @@ db.deps]

\* the committed store with the writes t of a transaction on top: inserted
\* rows, and the pointer column of the rows the transaction updated
Overlay(t) ==
  LET s == t.schemas @@ db.schemas
  IN [schemas |-> [i \in DOMAIN s |->
                     IF i \in DOMAIN t.ptr
                       THEN [s[i] EXCEPT !.activeVersionId = t.ptr[i]]
                       ELSE s[i]],
      versions |-> t.versions @@ db.versions,
      deps |-> t.deps @@ db.deps]

\* what the statements of p's transaction read (READ COMMITTED): committed
\* rows plus p's own uncommitted writes
View(p) == Overlay(call[p].tx)

\* DeploymentService.findById: a read through the injected deploymentRepo,
\* outside any transaction
FindById(id) == IF id \in DOMAIN db.deps THEN db.deps[id] ELSE NoRow

\* an UPDATE that does not stamp finishedAt
UpdatedStatusUnstamped(row, status, failureReason) ==
  [row EXCEPT !.status = status,
              !.failureReason = IF failureReason = Undefined THEN @ ELSE failureReason]

\* DeploymentService.updateStatus, the UPDATE: a failureReason of undefined is
\* left out of the SET list
UpdatedStatus(row, status, failureReason) ==
  [row EXCEPT !.status = status,
              !.failureReason = IF failureReason = Undefined THEN @ ELSE failureReason,
              !.finishedAt = TRUE]

\* an attempt that is inserted as already running
NewDeploymentInProgress(variantId, schemaVersionId) ==
  [variantId |-> variantId, schemaVersionId |-> schemaVersionId,
   status |-> "IN_PROGRESS", failureReason |-> NoReason, finishedAt |-> FALSE]

\* DeploymentService.create: the inserted row
NewDeployment(variantId, schemaVersionId) ==
  [variantId |-> variantId, schemaVersionId |-> schemaVersionId,
   status |-> "PENDING", failureReason |-> NoReason, finishedAt |-> FALSE]

\* the bytes of 'type Query { ping: Int }' (24 ASCII characters)
PingSDL ==
  <<116, 121, 112, 101, 32, 81, 117, 101, 114, 121, 32, 123,
    32, 112, 105, 110, 103, 58, 32, 73, 110, 116, 32, 125>>

\* the bytes of the two SDL documents of the universe: the second is the
\* first with a line feed and 'type A' appended
SdlText ==
  ("sdlA" :> PingSDL) @@ ("sdlB" :> PingSDL \o <<10, 116, 121, 112, 101, 32, 65>>)

\* index 64 of the base64 alphabet stands for the padding character '='
Pad == 64

\* Buffer.from(text).toString('base64') for ASCII text, as the indices of its
\* characters in the base64 alphabet: three bytes give four characters, an
\* incomplete last group is padded
Base64(bytes) ==
  LET n == Len(bytes)
      byte(i) == IF i <= n THEN bytes[i] ELSE 0
      char(k) ==
        LET g == (k - 1) \div 4
            j == (k - 1) % 4
            b1 == byte(3 * g + 1)
            b2 == byte(3 * g + 2)
            b3 == byte(3 * g + 3)
        IN CASE j = 0 -> b1 \div 4
             [] j = 1 -> (b1 % 4) * 16 + b2 \div 16
             [] j = 2 -> IF 3 * g + 2 > n THEN Pad ELSE (b2 % 16) * 4 + b3 \div 64
             [] j = 3 -> IF 3 * g + 3 > n THEN Pad ELSE b3 % 64
  IN [k \in 1..(4 * ((n + 2) \div 3)) |-> char(k)]

\* String.prototype.substring(from, to), 0-based, to exclusive
Substring(str, from, to) ==
  SubSeq(str, from + 1, IF to < Len(str) THEN to ELSE Len(str))

\* line 127: Buffer.from(schemaSDL).toString('base64').substring(0, 32)
Checksum(bytes) == Substring(Base64(bytes), 0, 32)

\* the checksum column of the SDL documents of the universe
ChecksumOf == [s \in DOMAIN SdlText |-> Checksum(SdlText[s])]

\* sequence numbers that start at 0
NewVersionZeroBased(schemaId, sdl, count) ==
  [schemaId |-> schemaId, schemaSDL |-> sdl, versionLabel |-> Label,
   checksum |-> ChecksumOf[sdl], versionOrder |-> count]

\* lines 121-130: the SchemaVersion row built from a count of existing rows
NewVersion(schemaId, sdl, count) ==
  [schemaId |-> schemaId, schemaSDL |-> sdl, versionLabel |-> Label,
   checksum |-> ChecksumOf[sdl], versionOrder |-> count + 1]

\* ApolloService.publishSchema, lines 160-165: the result built from a
\* response that arrived ("transport" never reaches these lines)
PublishResult(resp) ==
  LET errors == IF resp = "rejected" THEN CompositionErrors ELSE <<>>
  IN [success |-> Len(errors) = 0, compositionErrors |-> errors]

\* line 146 / line 150: error.message
ErrorMessage(resp) ==
  IF resp = "transport" THEN TransportMessage
  ELSE <<"Apollo Sync Failed">> \o PublishResult(resp).compositionErrors

Idle == [pc |-> "idle", op |-> "none", ident |-> "", schemaName |-> "", sdl |-> "",
         dryRun |-> FALSE, variant |-> "", newSchemaId |-> NoId, schemaId |-> NoId,
         versionId |-> NoId, depId |-> NoId, resp |-> "none", err |-> "none",
         ret |-> NoRow, pubs |-> 0, inTx |-> FALSE, tx |-> NoTx, target |-> NoId,
         headers |-> NoHeaders, apiKey |-> NoRow]

\* the registry of a fresh installation
EmptyDb == [schemas |-> Empty, versions |-> Empty, deps |-> Empty]
EmptyUpstream ==
  [k \in {Variants[v].name : v \in DOMAIN Variants} \X SchemaNames |-> "none"]

\* the registry after one accepted deploySchema("prod", "inventory", "sdlA",
\* "v1", false) on a fresh installation (the rows that call commits)
SeededDb ==
  [schemas |-> SchemaUuid(0) :> [variantId |-> "uA", name |-> "inventory",
                                 activeVersionId |-> VersionUuid(0)],
   versions |-> VersionUuid(0) :> NewVersion(SchemaUuid(0), "sdlA", 0),
   deps |-> DeploymentUuid(0) :>
              UpdatedStatus(NewDeployment("uA", VersionUuid(0)), "SUCCEEDED", Undefined)]
SeededUpstream == [EmptyUpstream EXCEPT ![<<"prod", "inventory">>] = "sdlA"]

\* a fresh installation
Init ==
  /\ db = EmptyDb
  /\ upstream = EmptyUpstream
  /\ calls = 0
  /\ call = [p \in Procs |-> Idle]

\* an installation that has served that one deploy
InitSeeded ==
  /\ db = SeededDb
  /\ upstream = SeededUpstream
  /\ calls = 0
  /\ call = [p \in Procs |-> Idle]

\* schema names and SDL texts are interchangeable: a call draws from those
\* the state already holds and the first one it does not hold, which loses no
\* behaviour up to renaming
UsedNames ==
  {db.schemas[i].name : i \in DOMAIN db.schemas} \cup
  {call[q].schemaName : q \in {r \in Procs : call[r].schemaName # ""}}
UsedSDLs ==
  {db.versions[i].schemaSDL : i \in DOMAIN db.versions} \cup
  {call[q].sdl : q \in {r \in Procs : call[r].op = "deploy" /\ call[r].sdl # ""}} \cup
  {upstream[k] : k \in {j \in DOMAIN upstream : upstream[j] # "none"}}
Draw(order, used) ==
  used \cup {order[i] : i \in {j \in 1..Len(order) :
                                 /\ order[j] \notin used
                                 /\ \A k \in 1..(j - 1) : order[k] \in used}}

\* the call of p moves on to the record given
Step(p, rec) == call' = [call EXCEPT ![p] = rec]

\* a call that ended: the caller got a value (pc "returned", ret) or an error
\* (pc "raised", err), or the process died under it (pc "crashed"); an open
\* transaction that did not commit is rolled back.  What is kept of the call
\* is what it answered, the ids it worked on and the platform's answer.
Ended(c, pc, err) ==
  [Idle EXCEPT !.pc = pc, !.op = c.op, !.err = err, !.ret = c.ret, !.dryRun = c.dryRun,
               !.newSchemaId = c.newSchemaId, !.schemaId = c.schemaId,
               !.versionId = c.versionId, !.depId = c.depId,
               !.resp = c.resp, !.pubs = c.pubs, !.target = c.target]

Over == {"returned", "raised", "crashed"}
Terminal == {"idle"} \cup Over

\* a request is served by the first free slot
Free(p) ==
  /\ call[p].pc \in Terminal
  /\ \A q \in Procs : q < p => call[q].pc \notin Terminal
  /\ calls < MaxCalls

\* --------------------------------------------------------- deploySchema
\* lines 89-96: a deploySchema request arrives
DeployRequests ==
  {[Idle EXCEPT !.pc = "resolve", !.op = "deploy", !.ident = x,
                !.schemaName = n, !.sdl = s, !.dryRun = d,
                !.newSchemaId = SchemaUuid(calls + 1),
                !.versionId = VersionUuid(calls + 1),
                !.depId = DeploymentUuid(calls + 1)] :
     x \in Idents, n \in Draw(NameOrder, UsedNames),
     s \in Draw(SDLOrder, UsedSDLs), d \in BOOLEAN}

DeployCall(p) ==
  /\ Free(p)
  /\ calls' = calls + 1
  /\ \E r \in DeployRequests : Step(p, r)
  /\ UNCHANGED <<db, upstream>>

\* lines 98-113: the variant is resolved and the transaction opened, or
\* 'Variant not found' is thrown
DeployResolve(p) ==
  LET c == call[p]
  IN /\ c.pc = "resolve"
     /\ IF VariantCandidates(c.ident) = {}
          THEN Step(p, Ended(c, "raised", "VariantNotFound"))
          ELSE \E v \in VariantCandidates(c.ident) :
                 Step(p, [c EXCEPT !.pc = "findSchema", !.variant = v, !.ident = "",
                                   !.inTx = TRUE])
     /\ UNCHANGED <<db, upstream, calls>>

\* line 115: manager.findOne(Schema, {variantId, name})
TxFindSchema(p) ==
  LET c == call[p]
      hits == {i \in DOMAIN View(p).schemas :
                 /\ View(p).schemas[i].variantId = c.variant
                 /\ View(p).schemas[i].name = c.schemaName}
  IN /\ c.pc = "findSchema"
     /\ IF hits = {}
          THEN Step(p, [c EXCEPT !.pc = "createSchema"])
          ELSE \E i \in hits : Step(p, [c EXCEPT !.pc = "insert", !.schemaId = i])
     /\ UNCHANGED <<db, upstream, calls>>

\* a schemas table without the unique index: no key is ever found taken
KeyHeldNever(rows, variantId, name) == FALSE

\* @Unique(['variantId', 'name']) on Schema: the index entry for the key
\* (variantId, name) among the rows given
KeyHeld(rows, variantId, name) ==
  \E i \in DOMAIN rows : rows[i].variantId = variantId /\ rows[i].name = name

\* line 117: manager.save(Schema, ...).  The unique index on (variantId, name)
\* makes the INSERT wait for an open transaction that inserted the same key,
\* and fail when a committed row holds it.
TxCreateSchema(p) ==
  LET c == call[p]
      id == c.newSchemaId
  IN /\ c.pc = "createSchema"
     /\ ~ \E q \in Procs \ {p} : KeyHeld(call[q].tx.schemas, c.variant, c.schemaName)
     /\ IF KeyHeld(db.schemas, c.variant, c.schemaName)
          THEN Step(p, Ended(c, "raised", "UniqueViolation"))
          ELSE Step(p, [c EXCEPT !.pc = "insert", !.schemaId = id,
                          !.tx.schemas = (id :> [variantId |-> c.variant,
                                                 name |-> c.schemaName,
                                                 activeVersionId |-> NoId]) @@ @])
     /\ UNCHANGED <<db, upstream, calls>>

\* a deploy that ignores the dryRun flag
AfterCreateAlways(dryRun) == "activate"

\* where deploySchema goes after the PENDING row is inserted (line 135)
AfterCreate(dryRun) == IF dryRun THEN "dryStatus" ELSE "activate"

\* lines 120-133: manager.count and manager.save of the SchemaVersion, then
\* deploymentService.create(variant.id, version.id, manager)
TxInsertVersion(p) ==
  LET c == call[p]
      count == Cardinality({i \in DOMAIN View(p).versions :
                              View(p).versions[i].schemaId = c.schemaId})
  IN /\ c.pc = "insert"
     /\ Step(p, [c EXCEPT !.pc = AfterCreate(c.dryRun),
                   !.tx.versions = (c.versionId :> NewVersion(c.schemaId, c.sdl, count)) @@ @,
                   !.tx.deps = (c.depId :> NewDeployment(c.variant, c.versionId)) @@ @])
     /\ UNCHANGED <<db, upstream, calls>>

\* updateStatus(id, status, failureReason, manager): the UPDATE goes through
\* the transaction's manager (line 34), the read back through findById (39)
TxUpdateStatus(c, status, failureReason) ==
  [c EXCEPT !.tx.deps = [@ EXCEPT ![c.depId] = UpdatedStatus(@, status, failureReason)],
            !.ret = FindById(c.depId)]

\* line 136, the dry-run branch: the callback returns what updateStatus read
TxDryStatus(p) ==
  LET c == call[p]
  IN /\ c.pc = "dryStatus"
     /\ Step(p, [TxUpdateStatus(c, "SUCCEEDED", Undefined) EXCEPT !.pc = "commit"])
     /\ UNCHANGED <<db, upstream, calls>>

\* an UPDATE that locks the whole schemas table
RowLockHeldTable(p, schemaId) == \E q \in Procs \ {p} : call[q].tx.ptr # Empty

\* the row lock an open transaction other than p's holds on schema row
\* schemaId since its UPDATE of line 140
RowLockHeld(p, schemaId) == \E q \in Procs \ {p} : schemaId \in DOMAIN call[q].tx.ptr

\* line 140: manager.update(Schema, schema.id, {activeVersionId}); the row
\* lock of another open transaction's UPDATE makes it wait
TxActivate(p) ==
  LET c == call[p]
  IN /\ c.pc = "activate"
     /\ ~RowLockHeld(p, c.schemaId)
     /\ Step(p, [c EXCEPT !.pc = "publish",
                   !.tx.ptr = (c.schemaId :> c.versionId) @@ @])
     /\ UNCHANGED <<db, upstream, calls>>

\* a deploy that calls the platform again after a failed publish
AfterPublishRetrying(resp) ==
  IF resp = "transport" \/ ~PublishResult(resp).success THEN "publish" ELSE "okStatus"

\* where deploySchema goes after the publish call (lines 145-155)
AfterPublish(resp) ==
  IF resp = "transport" \/ ~PublishResult(resp).success THEN "failStatus" ELSE "okStatus"

\* lines 143-148: apolloService.publishSchema answers
Publish(p) ==
  LET c == call[p]
      key == <<Variants[c.variant].name, c.schemaName>>
  IN /\ c.pc = "publish"
     /\ \E r \in Responses :
          /\ Step(p, [c EXCEPT !.pc = AfterPublish(r), !.resp = r, !.pubs = @ + 1])
          /\ upstream' = IF r = "accepted" THEN [upstream EXCEPT ![key] = c.sdl]
                         ELSE upstream
     /\ UNCHANGED <<db, calls>>

\* a callback that swallowed the error, so that the transaction commits
AfterThrowKept(t) == Overlay(t)

\* lines 113, 151: the committed store once the callback has thrown with the
\* writes t pending: the transaction is rolled back, none of them is kept
AfterThrow(t) == db

\* lines 148-152: updateStatus(deployment.id, FAILED, error.message, manager),
\* then throw error: the error reaches the caller
TxFailStatus(p) ==
  LET c == call[p]
      marked == TxUpdateStatus(c, "FAILED", ErrorMessage(c.resp))
  IN /\ c.pc = "failStatus"
     /\ db' = AfterThrow(marked.tx)
     /\ Step(p, Ended([marked EXCEPT !.ret = NoRow], "raised", "PublishFailed"))
     /\ UNCHANGED <<upstream, calls>>

\* line 155: the callback returns what updateStatus read
TxOkStatus(p) ==
  LET c == call[p]
  IN /\ c.pc = "okStatus"
     /\ Step(p, [TxUpdateStatus(c, "SUCCEEDED", Undefined) EXCEPT !.pc = "commit"])
     /\ UNCHANGED <<db, upstream, calls>>

\* line 156: the callback returned, the transaction commits
Commit(p) ==
  LET c == call[p]
  IN /\ c.pc = "commit"
     /\ db' = View(p)
     /\ Step(p, Ended(c, "returned", "none"))
     /\ UNCHANGED <<upstream, calls>>

\* a statement of the transaction fails (the call raises) or the process dies
\* (the call never answers): PostgreSQL rolls the open transaction back
TxAbort(p) ==
  LET c == call[p]
  IN /\ c.inTx
     /\ \E how \in {"raised", "crashed"} :
          Step(p, Ended(c, how, IF how = "raised" THEN "DbError" ELSE "none"))
     /\ db' = AfterThrow(c.tx)
     /\ UNCHANGED <<upstream, calls>>

\* -------------------------------------------------------- rollbackSchema
\* a lookup that falls back to some stored version when the id names none
FindVersionAny(id) ==
  IF id \in DOMAIN db.versions THEN id
  ELSE IF DOMAIN db.versions = {} THEN NoId
  ELSE CHOOSE i \in DOMAIN db.versions : TRUE

\* lines 160-163: versionRepo.findOne({where: {id}}), the id of the row found
\* (NoId for null); a read through the injected repository
FindVersion(id) == IF id \in DOMAIN db.versions THEN id ELSE NoId

\* lines 159-167: a rollbackSchema request arrives and versionRepo.findOne
\* looks the target version up; the fresh uuid stands for an id of no version
RollbackRequest(v, t) ==
  LET version == FindVersion(t)
      c == [Idle EXCEPT !.op = "rollback", !.variant = v, !.target = t,
                        !.versionId = version, !.depId = DeploymentUuid(calls + 1)]
  IN IF version = NoId
       THEN Ended(c, "raised", "VersionNotFound")
       ELSE [c EXCEPT !.pc = "rbCreate", !.schemaId = db.versions[version].schemaId]

RollbackRequests ==
  {RollbackRequest(v, t) :
     v \in RollbackVariantIds, t \in DOMAIN db.versions \cup {VersionUuid(calls + 1)}}

RollbackCall(p) ==
  /\ Free(p)
  /\ calls' = calls + 1
  /\ \E r \in RollbackRequests : Step(p, r)
  /\ UNCHANGED <<db, upstream>>

\* line 169: deploymentService.create(variantId, version.id), autocommitted;
\* the foreign key on variant_id rejects the id of no variant
RbCreate(p) ==
  LET c == call[p]
  IN /\ c.pc = "rbCreate"
     /\ IF c.variant \notin DOMAIN Variants
          THEN /\ Step(p, Ended(c, "raised", "ForeignKey"))
               /\ UNCHANGED db
          ELSE /\ Step(p, [c EXCEPT !.pc = "rbActivate"])
               /\ db' = [db EXCEPT !.deps =
                           (c.depId :> NewDeployment(c.variant, c.versionId)) @@ @]
     /\ UNCHANGED <<upstream, calls>>

\* a rollback that records the attempt and leaves the pointer alone
ReactivatedNot(schemas, schemaId, versionId) == schemas

\* line 172: the schemas table after UPDATE schemas SET active_version_id
Reactivated(schemas, schemaId, versionId) ==
  [schemas EXCEPT ![schemaId].activeVersionId = versionId]

\* line 172: schemaRepo.update(version.schemaId, {activeVersionId}),
\* autocommitted; it waits for the row lock of an open transaction
RbActivate(p) ==
  LET c == call[p]
  IN /\ c.pc = "rbActivate"
     /\ ~RowLockHeld(p, c.schemaId)
     /\ db' = [db EXCEPT !.schemas = Reactivated(@, c.schemaId, c.versionId)]
     /\ Step(p, [c EXCEPT !.pc = "rbStatus"])
     /\ UNCHANGED <<upstream, calls>>

\* line 174: updateStatus(deployment.id, SUCCEEDED), UPDATE and read back
\* through deploymentRepo
RbStatus(p) ==
  LET c == call[p]
      row == UpdatedStatus(db.deps[c.depId], "SUCCEEDED", Undefined)
  IN /\ c.pc = "rbStatus"
     /\ db' = [db EXCEPT !.deps[c.depId] = row]
     /\ Step(p, Ended([c EXCEPT !.ret = row], "returned", "none"))
     /\ UNCHANGED <<upstream, calls>>

\* a statement of rollbackSchema fails or the process dies between two of
\* its statements: what was written stays written
RbAbort(p) ==
  LET c == call[p]
  IN /\ c.pc \in {"rbCreate", "rbActivate", "rbStatus"}
     /\ \E how \in {"raised", "crashed"} :
          Step(p, Ended(c, how, IF how = "raised" THEN "DbError" ELSE "none"))
     /\ UNCHANGED <<db, upstream, calls>>

Next ==
  \E p \in Procs :
    \/ DeployCall(p)
    \/ DeployResolve(p)
    \/ TxFindSchema(p)
    \/ TxCreateSchema(p)
    \/ TxInsertVersion(p)
    \/ TxDryStatus(p)
    \/ TxActivate(p)
    \/ Publish(p)
    \/ TxFailStatus(p)
    \/ TxOkStatus(p)
    \/ Commit(p)
    \/ TxAbort(p)
    \/ RollbackCall(p)
    \/ RbCreate(p)
    \/ RbActivate(p)
    \/ RbStatus(p)
    \/ RbAbort(p)

Spec == Init /\ [][Next]_vars

SpecSeeded == InitSeeded /\ [][Next]_vars

\* deploySchema called by one client that waits for each answer before it
\* sends the next request
NextSequential ==
  \E p \in Procs :
    \/ (\A q \in Procs : call[q].pc \in Terminal) /\ DeployCall(p)
    \/ DeployResolve(p)
    \/ TxFindSchema(p)
    \/ TxCreateSchema(p)
    \/ TxInsertVersion(p)
    \/ TxDryStatus(p)
    \/ TxActivate(p)
    \/ Publish(p)
    \/ TxFailStatus(p)
    \/ TxOkStatus(p)
    \/ Commit(p)
    \/ TxAbort(p)

SpecSequential == Init /\ [][NextSequential]_vars

\* ------------------------------------------------- the checksum column
\* SDL documents a caller may deploy: 'type Query { ping: Int }' or the same
\* with 'pong', as it is or followed by a line feed, a blank, a tab or a
\* second type definition
SdlTexts ==
  {head \o tail :
     head \in {PingSDL, [PingSDL EXCEPT ![15] = 111]},
     tail \in {<<>>, <<10>>, <<32>>, <<9>>, <<10, 116, 121, 112, 101, 32, 65>>}}

\* two deploys are about to store their versions
InitChecksum ==
  /\ db = EmptyDb
  /\ upstream = EmptyUpstream
  /\ calls = 0
  /\ call \in [Procs -> {[Idle EXCEPT !.pc = "checksum", !.op = "deploy", !.sdl = t] :
                            t \in SdlTexts}]

\* lines 121-130: the checksum column of the version the deploy stores
StoreChecksum(p) ==
  /\ call[p].pc = "checksum"
  /\ Step(p, [call[p] EXCEPT !.pc = "stored", !.ret = [checksum |-> Checksum(call[p].sdl)]])
  /\ UNCHANGED <<db, upstream, calls>>

NextChecksum == \E p \in Procs : StoreChecksum(p)

SpecChecksum == InitChecksum /\ [][NextChecksum]_vars

\* -------------------------------------------------------------- ApiKeyGuard
\* values of the key headers a request may carry
HeaderKeys == {NoKey, "k1", "k2", "k9"}

\* what a request may carry as headers 'x-api-key' (lower) and 'X-API-KEY'
\* (upper)
RequestHeaders == [lower : HeaderKeys, upper : HeaderKeys]

\* the api_keys tables: key (unique) -> row; each of k1 and k2 is absent,
\* active or inactive, k9 is the key of no row
ApiKeyTables ==
  {[k \in ks |-> [key |-> k, isActive |-> k \in act]] :
     ks \in SUBSET {"k1", "k2"}, act \in SUBSET {"k1", "k2"}}

\* a guard that does not look at isActive
CanActivateAnyRow(table, headers) ==
  LET key == IF headers.lower # NoKey THEN headers.lower ELSE headers.upper
  IN IF key = NoKey
       THEN [ok |-> FALSE, message |-> "API Key is missing", apiKey |-> NoRow]
     ELSE IF key \notin DOMAIN table
       THEN [ok |-> FALSE, message |-> "Invalid or inactive API Key", apiKey |-> NoRow]
     ELSE [ok |-> TRUE, message |-> "", apiKey |-> table[key]]

\* ApiKeyGuard.canActivate, lines 14-31: true and the row attached to the
\* request, or the UnauthorizedException thrown
CanActivate(table, headers) ==
  LET key == IF headers.lower # NoKey THEN headers.lower ELSE headers.upper
  IN IF key = NoKey
       THEN [ok |-> FALSE, message |-> "API Key is missing", apiKey |-> NoRow]
     ELSE IF key \notin DOMAIN table \/ ~table[key].isActive
       THEN [ok |-> FALSE, message |-> "Invalid or inactive API Key", apiKey |-> NoRow]
     ELSE [ok |-> TRUE, message |-> "", apiKey |-> table[key]]

\* the guard is about to run on two requests, over some api_keys table
InitGuard ==
  /\ db \in {[apiKeys |-> t] : t \in ApiKeyTables}
  /\ upstream = EmptyUpstream
  /\ calls = 0
  /\ call \in [Procs -> {[Idle EXCEPT !.pc = "guard", !.op = "guard", !.headers = h] :
                            h \in RequestHeaders}]

\* canActivate runs on the request of p
GuardRun(p) ==
  LET c == call[p]
      result == CanActivate(db.apiKeys, c.headers)
  IN /\ c.pc = "guard"
     /\ IF result.ok
          THEN Step(p, [c EXCEPT !.pc = "returned", !.ret = [value |-> TRUE],
                                 !.apiKey = result.apiKey])
          ELSE Step(p, [c EXCEPT !.pc = "raised", !.err = "Unauthorized",
                                 !.ret = [message |-> result.message]])
     /\ UNCHANGED <<db, upstream, calls>>

NextGuard == \E p \in Procs : GuardRun(p)

SpecGuard == InitGuard /\ [][NextGuard]_vars

\* -------------------------------------------------------------- checkSchema
\* the ASCII white space String.prototype.trim removes: tab, line feed,
\* vertical tab, form feed, carriage return, blank
WhiteSpace == {9, 10, 11, 12, 13, 32}

\* a trim that removes nothing
TrimNone(str) == str

\* String.prototype.trim on ASCII text
Trim(str) ==
  LET inked == {i \in 1..Len(str) : str[i] \notin WhiteSpace}
      first == CHOOSE i \in inked : \A j \in inked : i <= j
      last == CHOOSE i \in inked : \A j \in inked : j <= i
  IN IF inked = {} THEN <<>> ELSE SubSeq(str, first, last)

\* SDL texts a caller may pass to checkSchema: empty, blank, and a document
\* with and without white space around it
CheckTexts == {<<>>, <<32>>, <<10, 9>>, PingSDL, <<32>> \o PingSDL \o <<10>>}

\* what the Apollo platform may do with the check mutation: answer with
\* CheckRequestSuccess, with InvalidInputError and a message, with
\* InvalidInputError and no message, with no data for the graph or variant,
\* with an empty body, or not at all
CheckResponses == {"success", "invalidInput", "invalidNoMessage", "nodata", "nobody",
                   "transport"}

\* ApolloService.checkSchema, lines 79-102: the result it returns, or threw
\* when the post fails or the body cannot be read (line 90 on undefined)
ApolloCheckSchema(resp) ==
  LET isValid == resp = "success"
      message == IF resp = "invalidInput" THEN "Invalid SDL" ELSE "Check failed"
  IN IF resp \in {"transport", "nobody"}
       THEN [threw |-> TRUE, isValid |-> FALSE, errors |-> <<>>]
       ELSE [threw |-> FALSE, isValid |-> isValid,
             errors |-> IF ~isValid THEN <<[message |-> message]>> ELSE <<>>]

\* SchemaService.checkSchema, lines 57-63: the answer to an empty schema
EmptySchemaResult ==
  [isValid |-> FALSE,
   errors |-> <<[code |-> "EMPTY_SCHEMA", message |-> "Schema SDL cannot be empty"]>>]

\* SchemaService.checkSchema, lines 66-86: the answer built from what
\* apolloService.checkSchema did
CheckResult(apolloCheck) ==
  IF apolloCheck.threw
    THEN [isValid |-> FALSE,
          errors |-> <<[code |-> "APOLLO_UNAVAILABLE",
                        message |-> "Failed to reach Apollo Studio"]>>]
  ELSE IF ~apolloCheck.isValid /\ Len(apolloCheck.errors) > 0
    THEN [isValid |-> FALSE,
          errors |-> [i \in 1..Len(apolloCheck.errors) |->
                        [code |-> "APOLLO_ERROR", message |-> apolloCheck.errors[i].message]]]
  ELSE [isValid |-> apolloCheck.isValid, errors |-> <<>>]

\* lines 52-53: a checkSchema request arrives
CheckRequests ==
  {[Idle EXCEPT !.pc = "validate", !.op = "check", !.ident = x, !.sdl = t] :
     x \in Idents, t \in CheckTexts}

CheckCall(p) ==
  /\ Free(p)
  /\ calls' = calls + 1
  /\ \E r \in CheckRequests : Step(p, r)
  /\ UNCHANGED <<db, upstream>>

\* lines 56-63: the internal validation; an empty schema is answered at once
CheckValidate(p) ==
  LET c == call[p]
  IN /\ c.pc = "validate"
     /\ IF Len(Trim(c.sdl)) > 0
          THEN Step(p, [c EXCEPT !.pc = "apolloCheck"])
          ELSE Step(p, [c EXCEPT !.pc = "returned", !.ret = EmptySchemaResult])
     /\ UNCHANGED <<db, upstream, calls>>

\* lines 66-86: apolloService.checkSchema(variantName, 'inventory', schemaSDL)
\* is called and its outcome answered
CheckApollo(p) ==
  LET c == call[p]
  IN /\ c.pc = "apolloCheck"
     /\ \E r \in CheckResponses :
          Step(p, [c EXCEPT !.pc = "returned", !.resp = r, !.pubs = @ + 1,
                            !.ret = CheckResult(ApolloCheckSchema(r))])
     /\ UNCHANGED <<db, upstream, calls>>

NextCheck ==
  \E p \in Procs :
    \/ CheckCall(p)
    \/ CheckValidate(p)
    \/ CheckApollo(p)

\* checkSchema requests on a fresh installation
SpecCheck == Init /\ [][NextCheck]_vars

\* ---------------------------------------------------------- getActiveSchema
\* lines 33-39: schemaRepo.findOne({where: {variantId}, relations:
\* ['activeVersion']}) and schema?.activeVersion || null: the ids of the
\* versions the query may return, NoId for null.  The where clause names the
\* variant only and there is no ORDER BY: any schema row of the variant may be
\* the one found.
GetActiveSchema(variantId) ==
  LET hits == {i \in DOMAIN db.schemas : db.schemas[i].variantId = variantId}
  IN IF hits = {} THEN {NoId} ELSE {db.schemas[i].activeVersionId : i \in hits}

\* lines 41-46: versionRepo.find({where: {schemaId}}), a read through the
\* injected repository: the ids of the committed versions of the schema
GetHistory(schemaId) ==
  {j \in DOMAIN db.versions : db.versions[j].schemaId = schemaId}

\* lines 48-50: deploymentService.findByVariant(variantId), a read through
\* the injected repository: the ids of the committed attempts of the variant
GetDeployments(variantId) ==
  {d \in DOMAIN db.deps : db.deps[d].variantId = variantId}

\* ------------------------------------------- the deployment ledger alone
\* the values of the DeploymentStatus enum
DeploymentStatuses == {"PENDING", "IN_PROGRESS", "SUCCEEDED", "FAILED", "ROLLED_BACK"}

\* what a caller may pass as failureReason: nothing, or a message
FailureReasons == {Undefined, TransportMessage, <<"Apollo Sync Failed">> \o CompositionErrors}

\* DeploymentService.create(variantId, schemaVersionId) without a manager:
\* the PENDING row is inserted through deploymentRepo and returned
LedgerCreate(p) ==
  /\ Free(p)
  /\ calls' = calls + 1
  /\ \E v \in DOMAIN Variants, t \in DOMAIN db.versions :
       LET id == DeploymentUuid(calls + 1)
           row == NewDeployment(v, t)
       IN /\ db' = [db EXCEPT !.deps = (id :> row) @@ @]
          /\ Step(p, Ended([Idle EXCEPT !.op = "create", !.depId = id, !.ret = row],
                           "returned", "none"))
  /\ UNCHANGED upstream

\* DeploymentService.updateStatus(id, status, failureReason) without a
\* manager: the UPDATE (of no row when the id names none), then the row that
\* findById reads back, null when there is none; the fresh uuid stands for
\* an id of no attempt
LedgerUpdateStatus(p) ==
  /\ Free(p)
  /\ calls' = calls + 1
  /\ \E id \in DOMAIN db.deps \cup {DeploymentUuid(calls + 1)},
        status \in DeploymentStatuses, failureReason \in FailureReasons :
       /\ db' = IF id \in DOMAIN db.deps
                  THEN [db EXCEPT !.deps[id] = UpdatedStatus(@, status, failureReason)]
                  ELSE db
       /\ Step(p, Ended([Idle EXCEPT !.op = "updateStatus", !.depId = id,
                                     !.ret = IF id \in DOMAIN db'.deps THEN db'.deps[id]
                                             ELSE NoRow],
                        "returned", "none"))
  /\ UNCHANGED upstream

NextLedger ==
  \E p \in Procs :
    \/ LedgerCreate(p)
    \/ LedgerUpdateStatus(p)

\* the ledger's operations called on their own, on a registry that has served
\* one deploy
SpecLedger == InitSeeded /\ [][NextLedger]_vars

\* ------------------------------------------------- the GraphQL endpoint
\* the api_keys table of the installation: k1 is an active key, k2 a revoked
\* one
ApiKeys ==
  [k \in {"k1", "k2"} |-> [key |-> k, isActive |-> k = "k1"]]

\* what a client of the endpoint sends as X-API-KEY: nothing, the active key,
\* the revoked key
GatewayHeaders == {[NoHeaders EXCEPT !.upper = k] : k \in {NoKey, "k1", "k2"}}

\* the guards Nest runs before a mutation of SchemaResolver: those bound with
\* @UseGuards to the method or to the class, and the global ones (APP_GUARD
\* providers, app.useGlobalGuards); the source binds none
ResolverGuards == {}

\* Nest runs the bound guards and then the resolver method: with a guard that
\* refuses, the request ends with its exception and the method is not called;
\* otherwise the method gets the request
Dispatch(r, h) ==
  IF \E g \in ResolverGuards : g = "ApiKeyGuard" /\ ~CanActivate(ApiKeys, h).ok
    THEN Ended([r EXCEPT !.headers = h], "raised", "Unauthorized")
    ELSE [r EXCEPT !.headers = h]

\* lines 27-33: the checkSchema mutation
MutationCheckSchema(p) ==
  /\ Free(p)
  /\ calls' = calls + 1
  /\ \E h \in GatewayHeaders, r \in CheckRequests : Step(p, Dispatch(r, h))
  /\ UNCHANGED <<db, upstream>>

\* lines 35-44: the deploySchema mutation
MutationDeploySchema(p) ==
  /\ Free(p)
  /\ calls' = calls + 1
  /\ \E h \in GatewayHeaders, r \in DeployRequests : Step(p, Dispatch(r, h))
  /\ UNCHANGED <<db, upstream>>

\* lines 46-52: the rollbackSchema mutation
MutationRollbackSchema(p) ==
  /\ Free(p)
  /\ calls' = calls + 1
  /\ \E h \in GatewayHeaders, r \in RollbackRequests : Step(p, Dispatch(r, h))
  /\ UNCHANGED <<db, upstream>>

NextGateway ==
  \E p \in Procs :
    \/ MutationCheckSchema(p)
    \/ MutationDeploySchema(p)
    \/ MutationRollbackSchema(p)
    \/ CheckValidate(p)
    \/ CheckApollo(p)
    \/ DeployResolve(p)
    \/ TxFindSchema(p)
    \/ TxCreateSchema(p)
    \/ TxInsertVersion(p)
    \/ TxDryStatus(p)
    \/ TxActivate(p)
    \/ Publish(p)
    \/ TxFailStatus(p)
    \/ TxOkStatus(p)
    \/ Commit(p)
    \/ TxAbort(p)
    \/ RbCreate(p)
    \/ RbActivate(p)
    \/ RbStatus(p)
    \/ RbAbort(p)

\* the three mutations called over HTTP on a fresh installation
SpecGateway == Init /\ [][NextGateway]_vars

\* ----------------------------------------------------------- the CI scripts
\* pRetry's option retries: the number of retries after the first attempt
Retries == 3

\* what one axios.post of the mutation may end with: no answer (time-out,
\* connection refused), an HTTP error status, a 200 body with GraphQL errors,
\* a 200 body without the mutation's field, the mutation's result; for
\* checkSchema the result is isValid true ("ok") or false ("invalid")
Thrown == {"transport", "httpError"}
PublishOutcomes == Thrown \cup {"errors", "nodata", "ok"}
CheckOutcomes == Thrown \cup {"errors", "nodata", "ok", "invalid"}

\* pRetry after one attempt of the wrapped call: a value it resolved with goes
\* to the caller; an error it threw is retried, after the back-off, while
\* retries are left, and is thrown to the caller when none is
PRetry(c, outcome) ==
  LET attemptNumber == c.pubs + 1
      retriesLeft == Retries - (attemptNumber - 1)
  IN [c EXCEPT !.pubs = attemptNumber,
               !.resp = outcome,
               !.pc = IF outcome \notin Thrown THEN "inspect"
                      ELSE IF retriesLeft > 0 THEN "send"
                      ELSE "catch"]

\* process.exit(code)
Exit(c, code) == [c EXCEPT !.pc = "exited", !.ret = [exitCode |-> code]]

\* two runs of the scripts have read their arguments and the schema file
InitScript ==
  /\ db = EmptyDb
  /\ upstream = EmptyUpstream
  /\ calls = 0
  /\ call \in [Procs -> {[Idle EXCEPT !.pc = "send", !.op = o] :
                            o \in {"publishScript", "checkScript"}}]

\* schema-publish.js lines 192-205: one attempt of publishSchema under pRetry
PublishSend(p) ==
  /\ call[p].op = "publishScript" /\ call[p].pc = "send"
  /\ \E o \in PublishOutcomes : Step(p, PRetry(call[p], o))
  /\ UNCHANGED <<db, upstream, calls>>

\* lines 207-229: GraphQL errors or no deploySchema field exit with 1, a
\* deployment exits with 0
PublishInspect(p) ==
  /\ call[p].op = "publishScript" /\ call[p].pc = "inspect"
  /\ Step(p, Exit(call[p], IF call[p].resp = "ok" THEN 0 ELSE 1))
  /\ UNCHANGED <<db, upstream, calls>>

\* lines 231-243: the error pRetry threw is reported, exit with 1
PublishCatch(p) ==
  /\ call[p].op = "publishScript" /\ call[p].pc = "catch"
  /\ Step(p, Exit(call[p], 1))
  /\ UNCHANGED <<db, upstream, calls>>

\* the check script, lines 124-137: one attempt of checkSchema under pRetry
CheckSend(p) ==
  /\ call[p].op = "checkScript" /\ call[p].pc = "send"
  /\ \E o \in CheckOutcomes : Step(p, PRetry(call[p], o))
  /\ UNCHANGED <<db, upstream, calls>>

\* lines 139-167: GraphQL errors, no checkSchema field or isValid false exit
\* with 1, isValid true exits with 0
CheckInspect(p) ==
  /\ call[p].op = "checkScript" /\ call[p].pc = "inspect"
  /\ Step(p, Exit(call[p], IF call[p].resp = "ok" THEN 0 ELSE 1))
  /\ UNCHANGED <<db, upstream, calls>>

\* lines 169-179: the error pRetry threw is reported, exit with 1
CheckCatch(p) ==
  /\ call[p].op = "checkScript" /\ call[p].pc = "catch"
  /\ Step(p, Exit(call[p], 1))
  /\ UNCHANGED <<db, upstream, calls>>

NextScript ==
  \E p \in Procs :
    \/ PublishSend(p)
    \/ PublishInspect(p)
    \/ PublishCatch(p)
    \/ CheckSend(p)
    \/ CheckInspect(p)
    \/ CheckCatch(p)

\* runs of the publish and check scripts
SpecScript == InitScript /\ [][NextScript]_vars

\* ------------------------------------------------- the connection pool
\* the pool of the data source holds as many connections as there are
\* concurrent deploys; a query waits until one is free (the pool is
\* configured with no acquire time-out)
PoolSize == Cardinality(Procs)

\* a transaction keeps its connection from BEGIN to COMMIT or ROLLBACK; a
\* query through an injected repository takes one for the query alone
FreeConnections == PoolSize - Cardinality({p \in Procs : call[p].inTx})

\* deploySchema has been called once per process
InitPool ==
  /\ db = EmptyDb
  /\ upstream = EmptyUpstream
  /\ calls = 0
  /\ call \in [Procs -> {[Idle EXCEPT !.pc = "resolve", !.op = "deploy", !.dryRun = d,
                                       !.variant = "uA"] : d \in BOOLEAN}]

\* lines 99-104: variantRepo.findOne takes a connection for the query
PoolResolve(p) ==
  /\ call[p].pc = "resolve"
  /\ FreeConnections > 0
  /\ Step(p, [call[p] EXCEPT !.pc = "begin"])
  /\ UNCHANGED <<db, upstream, calls>>

\* line 113: manager.transaction takes a connection and keeps it
PoolBegin(p) ==
  /\ call[p].pc = "begin"
  /\ FreeConnections > 0
  /\ Step(p, [call[p] EXCEPT !.pc = "statements", !.inTx = TRUE])
  /\ UNCHANGED <<db, upstream, calls>>

\* lines 115-147: the statements through the manager run on the
\* transaction's connection; a non-dry-run deploy calls the platform, which
\* answers
PoolStatements(p) ==
  /\ call[p].pc = "statements"
  /\ IF call[p].dryRun
       THEN Step(p, [call[p] EXCEPT !.pc = "update"])
       ELSE \E r \in Responses :
              Step(p, [call[p] EXCEPT !.pc = "update", !.resp = r, !.pubs = 1])
  /\ UNCHANGED <<db, upstream, calls>>

\* updateStatus, line 34: the UPDATE runs on the transaction's connection
PoolUpdate(p) ==
  /\ call[p].pc = "update"
  /\ Step(p, [call[p] EXCEPT !.pc = "readBack"])
  /\ UNCHANGED <<db, upstream, calls>>

\* updateStatus, line 39: findById goes through deploymentRepo and takes a
\* connection of its own for the query, while the transaction keeps its own
PoolReadBack(p) ==
  /\ call[p].pc = "readBack"
  /\ FreeConnections > 0
  /\ Step(p, [call[p] EXCEPT !.pc = "finish", !.ret = FindById(call[p].depId)])
  /\ UNCHANGED <<db, upstream, calls>>

\* lines 151, 155-156: the callback throws or returns, the transaction ends
\* and gives its connection back
PoolFinish(p) ==
  /\ call[p].pc = "finish"
  /\ IF call[p].dryRun \/ AfterPublish(call[p].resp) = "okStatus"
       THEN Step(p, Ended(call[p], "returned", "none"))
       ELSE Step(p, Ended(call[p], "raised", "PublishFailed"))
  /\ UNCHANGED <<db, upstream, calls>>

NextPool ==
  \E p \in Procs :
    \/ PoolResolve(p)
    \/ PoolBegin(p)
    \/ PoolStatements(p)
    \/ PoolUpdate(p)
    \/ PoolReadBack(p)
    \/ PoolFinish(p)

\* as many concurrent deploys as the pool has connections
SpecPool == InitPool /\ [][NextPool]_vars

\* ------------------------------------------------------------ vocabulary
\* no call is in flight
Quiescent == \A p \in Procs : call[p].pc \in Terminal

\* the publish call of c answered and reported success
PublishSucceeded(c) == c.resp \in Responses \ {"transport"} /\ PublishResult(c.resp).success

\* p is a non-dry-run deploy that raised because its publish failed
PublishFailedRaised(p) ==
  call[p].op = "deploy" /\ call[p].pc = "raised" /\ call[p].err = "PublishFailed"

\* p takes a step of the call it is serving
Moves(p) == call[p].pc \notin Terminal /\ call'[p] # call[p]

\* the identifier is neither the id nor the name of a variant
NoMatch(x) == \A v \in DOMAIN Variants : v # x /\ Variants[v].name # x

\* the SDL of the active version of logical schema (v, n), "none" without one
LocalActiveSDL(v, n) ==
  LET hits == {i \in DOMAIN db.schemas :
                 /\ db.schemas[i].variantId = v
                 /\ db.schemas[i].name = n
                 /\ db.schemas[i].activeVersionId # NoId}
  IN IF hits = {} THEN "none"
     ELSE db.versions[db.schemas[CHOOSE i \in hits : TRUE].activeVersionId].schemaSDL

\* the committed versions of logical schema i
VersionsOf(i) == {j \in DOMAIN db.versions : db.versions[j].schemaId = i}

\* ------------------------------------------------------------------ claims
\* C1: a non-dry-run deploy that returns hands back an attempt whose status is
\* SUCCEEDED exactly when its own publish call reported success, and the
\* attempt of a non-dry-run deploy whose publish did not report success is
\* never recorded as SUCCEEDED.
C1_ReturnedSucceededIffPublished ==
  \A p \in Procs :
    (call[p].op = "deploy" /\ ~call[p].dryRun /\ call[p].pc \in Over) =>
      /\ call[p].pc = "returned" =>
           ((call[p].ret # NoRow /\ call[p].ret.status = "SUCCEEDED")
              <=> PublishSucceeded(call[p]))
      /\ (~PublishSucceeded(call[p]) /\ call[p].depId \in DOMAIN db.deps) =>
           db.deps[call[p].depId].status # "SUCCEEDED"

\* C2: once a deploy has raised because its publish failed, the ledger holds
\* its attempt as FAILED, with finishedAt set and the failure reason of the
\* publish error.
C2_FailedAttemptRecorded ==
  \A p \in Procs :
    PublishFailedRaised(p) =>
      /\ call[p].depId \in DOMAIN db.deps
      /\ db.deps[call[p].depId].status = "FAILED"
      /\ db.deps[call[p].depId].finishedAt
      /\ db.deps[call[p].depId].failureReason = ErrorMessage(call[p].resp)

\* C3: once a deploy has raised because its publish failed, none of its rows
\* exists (version, deployment, newly created schema), no pointer references
\* its version, and the step that raised left the committed store, pointers
\* included, as it was.
C3_FailedPublishLeavesNoTrace ==
  /\ [](\A p \in Procs :
          PublishFailedRaised(p) =>
            /\ call[p].versionId \notin DOMAIN db.versions
            /\ call[p].depId \notin DOMAIN db.deps
            /\ call[p].newSchemaId \notin DOMAIN db.schemas
            /\ \A i \in DOMAIN db.schemas :
                 db.schemas[i].activeVersionId # call[p].versionId)
  /\ [][\A p \in Procs :
          (call[p].op = "deploy" /\ Moves(p) /\ call'[p].pc = "raised") => db' = db]_vars

\* C3 witness: a deploy that created its logical schema has raised on a
\* failed publish
C3_Witness ==
  \E p \in Procs : PublishFailedRaised(p) /\ call[p].schemaId = call[p].newSchemaId

\* C4 as claimed: after a deploy whose publish was rejected has raised, the
\* pointer of its logical schema references the version that deploy created.
C4_PointerAtFailedVersion ==
  \A p \in Procs :
    (PublishFailedRaised(p) /\ call[p].resp = "rejected") =>
      /\ call[p].schemaId \in DOMAIN db.schemas
      /\ db.schemas[call[p].schemaId].activeVersionId = call[p].versionId

\* C4 as amended: after a deploy whose publish was rejected has raised, the
\* pointer of its logical schema does not reference the version that deploy
\* created (a logical schema the call created does not exist), and raising
\* left every committed pointer at the value it had.
C4_PointerNotAtFailedVersion ==
  /\ [](\A p \in Procs :
          (PublishFailedRaised(p) /\ call[p].resp = "rejected") =>
            IF call[p].schemaId \in DOMAIN db.schemas
              THEN db.schemas[call[p].schemaId].activeVersionId # call[p].versionId
              ELSE call[p].schemaId = call[p].newSchemaId)
  /\ [][\A p \in Procs :
          (call[p].pc = "failStatus" /\ call[p].resp = "rejected" /\ Moves(p)
             /\ call'[p].err = "PublishFailed")
            => db'.schemas = db.schemas]_vars

\* C4 witness: a rejected deploy to a logical schema that had an active
\* version has raised
C4_Witness ==
  \E p \in Procs :
    /\ PublishFailedRaised(p) /\ call[p].resp = "rejected"
    /\ call[p].schemaId \in DOMAIN db.schemas
    /\ db.schemas[call[p].schemaId].activeVersionId # NoId

\* C5: whenever no call is in flight, the SDL of the locally active version
\* of each (variant, schema name) is the SDL the platform last accepted for
\* that variant and subgraph.
C5_InSyncWhenQuiescent ==
  Quiescent =>
    \A v \in DOMAIN Variants, n \in SchemaNames :
      LocalActiveSDL(v, n) = upstream[<<Variants[v].name, n>>]

\* C6: the committed versions of each logical schema carry the sequence
\* numbers 1..N, none twice and none skipped.
C6_SequenceNumbersExact ==
  \A i \in DOMAIN db.schemas :
    /\ {db.versions[j].versionOrder : j \in VersionsOf(i)} = 1..Cardinality(VersionsOf(i))
    /\ \A j, k \in VersionsOf(i) :
         db.versions[j].versionOrder = db.versions[k].versionOrder => j = k

\* C7: the commit of a dry-run deploy leaves the pointer of every logical
\* schema as it was, gives a logical schema it creates no active version and
\* adds exactly one SchemaVersion row; no other step of the call writes to
\* the committed store.
C7_DryRunKeepsPointers ==
  [][\A p \in Procs :
       (call[p].op = "deploy" /\ call[p].dryRun /\ Moves(p)) =>
         IF call'[p].pc = "returned"
           THEN /\ \A i \in DOMAIN db.schemas :
                     /\ i \in DOMAIN db'.schemas
                     /\ db'.schemas[i].activeVersionId = db.schemas[i].activeVersionId
                /\ \A i \in DOMAIN db'.schemas \ DOMAIN db.schemas :
                     db'.schemas[i].activeVersionId = NoId
                /\ call[p].versionId \notin DOMAIN db.versions
                /\ DOMAIN db'.versions = DOMAIN db.versions \cup {call[p].versionId}
                /\ \A i \in DOMAIN db.versions : db'.versions[i] = db.versions[i]
           ELSE db' = db]_vars

\* C7 witness: a dry-run deploy to a logical schema that has an active
\* version has returned
C7_Witness ==
  \E p \in Procs :
    /\ call[p].op = "deploy" /\ call[p].dryRun /\ call[p].pc = "returned"
    /\ call[p].versionId \in DOMAIN db.versions
    /\ db.schemas[call[p].schemaId].activeVersionId \notin {NoId, call[p].versionId}

\* C8: a dry-run deploy that returns has made no upstream call and hands
\* back an attempt whose status is SUCCEEDED.
C8_DryRunReturnsSucceeded ==
  \A p \in Procs :
    (call[p].op = "deploy" /\ call[p].dryRun /\ call[p].pc = "returned") =>
      /\ call[p].pubs = 0
      /\ call[p].ret # NoRow
      /\ call[p].ret.status = "SUCCEEDED"

\* C9: rollback to an existing version V moves the pointer of V's logical
\* schema to V, inserts exactly one attempt, which references V and is
\* SUCCEEDED when the call returns, and never calls the platform.
C9_RollbackActivatesLocally ==
  /\ [](\A p \in Procs :
          (call[p].op = "rollback" /\ call[p].pc = "returned") =>
            /\ call[p].ret # NoRow
            /\ call[p].ret.status = "SUCCEEDED"
            /\ call[p].ret.schemaVersionId = call[p].versionId
            /\ call[p].depId \in DOMAIN db.deps
            /\ db.deps[call[p].depId] = call[p].ret
            /\ call[p].pubs = 0)
  /\ [][\A p \in Procs :
          (call[p].op = "rollback" /\ Moves(p)) =>
            /\ upstream' = upstream
            /\ call'[p].pubs = 0
            /\ DOMAIN db'.versions = DOMAIN db.versions
            /\ (call[p].pc = "rbActivate" /\ call'[p].pc = "rbStatus") =>
                 /\ call[p].schemaId = db.versions[call[p].versionId].schemaId
                 /\ db'.schemas[call[p].schemaId].activeVersionId = call[p].versionId
            /\ IF call[p].pc = "rbCreate" /\ call'[p].pc = "rbActivate"
                 THEN /\ call[p].depId \notin DOMAIN db.deps
                      /\ DOMAIN db'.deps = DOMAIN db.deps \cup {call[p].depId}
                 ELSE DOMAIN db'.deps = DOMAIN db.deps]_vars

\* C9 witness: a rollback has returned with the pointer on its version
C9_Witness ==
  \E p \in Procs :
    /\ call[p].op = "rollback" /\ call[p].pc = "returned"
    /\ db.schemas[call[p].schemaId].activeVersionId = call[p].versionId

\* C10: a deploy whose identifier is neither an id nor a name of a variant
\* raises 'Variant not found' without writing to the store and without an
\* upstream call.
C10_UnknownTargetRaises ==
  [][\A p \in Procs :
       (call[p].op = "deploy" /\ call[p].pc = "resolve" /\ NoMatch(call[p].ident)
          /\ Moves(p)) =>
         /\ call'[p].pc = "raised"
         /\ call'[p].err = "VariantNotFound"
         /\ call'[p].pubs = 0
         /\ db' = db
         /\ upstream' = upstream]_vars

\* C10 witness: a deploy has raised 'Variant not found'
C10_Witness ==
  \E p \in Procs : call[p].pc = "raised" /\ call[p].err = "VariantNotFound"

\* p starts serving a new request in this step
Arrives(p) == calls' = calls + 1 /\ call[p].pc \in Terminal /\ call'[p] # call[p]

\* C11: a rollback whose target id names no stored version raises 'Target
\* schema version not found' at once; the step leaves the store and the
\* platform as they were, so no attempt is inserted and no pointer moves, and
\* the call never owns an attempt row.
C11_MissingVersionRaises ==
  /\ [](\A p \in Procs :
          (call[p].op = "rollback" /\ call[p].err = "VersionNotFound") =>
            /\ call[p].pc = "raised"
            /\ call[p].depId \notin DOMAIN db.deps)
  /\ [][\A p \in Procs :
          (Arrives(p) /\ call'[p].op = "rollback"
             /\ call'[p].target \notin DOMAIN db.versions) =>
            /\ call'[p].pc = "raised"
            /\ call'[p].err = "VersionNotFound"
            /\ db' = db
            /\ upstream' = upstream]_vars

\* C11 witness: a rollback to the id of no version has raised on a registry
\* that holds versions and an active pointer
C11_Witness ==
  \E p \in Procs :
    /\ call[p].op = "rollback" /\ call[p].pc = "raised"
    /\ call[p].err = "VersionNotFound"
    /\ call[p].target \notin DOMAIN db.versions
    /\ \E i \in DOMAIN db.schemas : db.schemas[i].activeVersionId # NoId

\* the ids an attempt may carry
AttemptIds == {DeploymentUuid(k) : k \in 0..MaxCalls}

\* the row of attempt d, committed or pending in an open transaction; NoRow
\* when there is none
Attempt(d) ==
  IF d \in DOMAIN db.deps THEN db.deps[d]
  ELSE IF \E p \in Procs : d \in DOMAIN call[p].tx.deps
    THEN call[CHOOSE p \in Procs : d \in DOMAIN call[p].tx.deps].tx.deps[d]
  ELSE NoRow

\* the status of attempt d, "absent" when there is no such row
StatusOf(d) == IF Attempt(d) = NoRow THEN "absent" ELSE Attempt(d).status

\* C12: every attempt row, committed or pending, has status PENDING,
\* SUCCEEDED or FAILED, never ROLLED_BACK or IN_PROGRESS; a row appears as
\* PENDING, its status changes only from PENDING, to SUCCEEDED or FAILED, and
\* a SUCCEEDED or FAILED row keeps its status for as long as it exists; a
\* committed row is never removed.
C12_StatusChangesOnce ==
  /\ [](\A d \in AttemptIds : StatusOf(d) \in {"absent", "PENDING", "SUCCEEDED", "FAILED"})
  /\ [][\A d \in AttemptIds :
          /\ d \in DOMAIN db.deps => d \in DOMAIN db'.deps
          /\ (StatusOf(d)' # StatusOf(d) /\ StatusOf(d)' # "absent") =>
               \/ StatusOf(d) = "absent" /\ StatusOf(d)' = "PENDING"
               \/ StatusOf(d) = "PENDING" /\ StatusOf(d)' \in {"SUCCEEDED", "FAILED"}]_vars

\* C12 witness: the ledger holds an attempt that a deploy took to SUCCEEDED
\* and one that a rollback took to SUCCEEDED
C12_Witness ==
  \E q \in Procs, d \in AttemptIds :
    /\ call[q].op = "rollback" /\ call[q].pc = "returned"
    /\ d # call[q].depId
    /\ StatusOf(d) = "SUCCEEDED"
    /\ StatusOf(call[q].depId) = "SUCCEEDED"

\* C13: when a non-dry-run deploy that has updated the pointer dies, or has
\* a statement fail, before the outcome of its publish call is recorded, the
\* ledger afterwards holds its attempt with status PENDING.
C13_InterruptedDeployStaysPending ==
  [][\A p \in Procs :
       (call[p].op = "deploy" /\ ~call[p].dryRun
          /\ call[p].pc \in {"publish", "okStatus", "failStatus"}
          /\ call'[p].pc \in {"crashed", "raised"}
          /\ call'[p].err \in {"none", "DbError"}) =>
         /\ call[p].depId \in DOMAIN db'.deps
         /\ db'.deps[call[p].depId].status = "PENDING"]_vars

\* the rows of the schemas table, committed or pending in an open
\* transaction, each with its id
SchemaRows ==
  {<<i, db.schemas[i]>> : i \in DOMAIN db.schemas} \cup
  UNION {{<<i, call[p].tx.schemas[i]>> : i \in DOMAIN call[p].tx.schemas} : p \in Procs}

\* C14: no two rows of the schemas table, committed or pending in an open
\* transaction, carry the same (variantId, name).
C14_OneSchemaPerKey ==
  \A r, t \in SchemaRows :
    (r[2].variantId = t[2].variantId /\ r[2].name = t[2].name) => r[1] = t[1]

\* C14 witness: of two deploys that both found no logical schema for their
\* (variant, name), one has committed its row and the other was refused by
\* the unique index
C14_Witness ==
  \E p \in Procs :
    /\ call[p].op = "deploy" /\ call[p].pc = "raised"
    /\ call[p].err = "UniqueViolation"
    /\ db.schemas # Empty

\* a step of the deploy that q is serving, other than its failing
Progress(q) ==
  \/ DeployResolve(q) \/ TxFindSchema(q) \/ TxCreateSchema(q) \/ TxInsertVersion(q)
  \/ TxDryStatus(q) \/ TxActivate(q) \/ Publish(q) \/ TxFailStatus(q)
  \/ TxOkStatus(q) \/ Commit(q)

\* how far a deploy has come
Rank(pc) ==
  CASE pc = "resolve" -> 1 [] pc = "findSchema" -> 2 [] pc = "createSchema" -> 3
    [] pc = "insert" -> 4 [] pc \in {"dryStatus", "activate"} -> 5
    [] pc = "publish" -> 6 [] pc \in {"okStatus", "failStatus"} -> 7
    [] pc = "commit" -> 8 [] OTHER -> 9

\* p waits for the answer to its publish call and q serves a deploy to
\* another variant or another schema name (or has not resolved its variant)
HungBeside(p, q) ==
  /\ p # q
  /\ call[p].pc = "publish"
  /\ call[q].op = "deploy" /\ call[q].pc \notin Terminal
  /\ \/ call[q].pc = "resolve"
     \/ call[q].variant # call[p].variant
     \/ call[q].schemaName # call[p].schemaName

\* C15: while a deploy waits for the answer to its publish call, a deploy to
\* another variant or another schema name always has its next step enabled,
\* and every step of a deploy takes it strictly further, so that it ends
\* after at most eight steps without the hung call ever answering.
C15_HungPublishBlocksOnlyItself ==
  /\ [](\A p, q \in Procs : HungBeside(p, q) => ENABLED Progress(q))
  /\ [][\A q \in Procs :
          (call[q].op = "deploy" /\ Moves(q)) => Rank(call'[q].pc) > Rank(call[q].pc)]_vars

\* C15 witness: while one deploy waits for its publish answer, another has
\* returned from the pointer update and commit on a different logical schema
C15_Witness ==
  \E p, q \in Procs :
    /\ p # q
    /\ call[p].pc = "publish"
    /\ call[q].op = "deploy" /\ call[q].pc = "returned" /\ ~call[q].dryRun
    /\ call[q].schemaId \in DOMAIN db.schemas
    /\ call[q].schemaId # call[p].schemaId
    /\ db.schemas[call[q].schemaId].activeVersionId = call[q].versionId

\* C16: a deploy whose identifier is the id of a variant runs against that
\* variant, whatever variants carry the identifier as their name; any other
\* identifier resolves to a variant of that name.
C16_IdMatchWins ==
  [][\A p \in Procs :
       (call[p].op = "deploy" /\ call[p].pc = "resolve" /\ Moves(p)
          /\ call'[p].pc # "raised") =>
         IF call[p].ident \in DOMAIN Variants
           THEN call'[p].variant = call[p].ident
           ELSE Variants[call'[p].variant].name = call[p].ident]_vars

\* the versions of logical schema i, committed or pending in an open
\* transaction
StoredVersionsOf(i) ==
  VersionsOf(i) \cup
  UNION {{j \in DOMAIN call[p].tx.versions : call[p].tx.versions[j].schemaId = i} :
           p \in Procs}

\* C17: when a non-dry-run deploy whose publish succeeded returns with no
\* other call in flight, the pointer of the logical schema of its (variant,
\* schema name) references the version the call created; and a version
\* inserted for a logical schema that has no version, committed or pending,
\* gets sequence number 1.
C17_AcceptedDeployActivates ==
  [][\A p \in Procs :
       LET c == call[p]
       IN /\ (c.op = "deploy" /\ ~c.dryRun /\ PublishSucceeded(c) /\ Moves(p)
                 /\ call'[p].pc = "returned"
                 /\ \A q \in Procs \ {p} : call[q].pc \in Terminal) =>
               /\ c.schemaId \in DOMAIN db'.schemas
               /\ db'.schemas[c.schemaId].variantId = c.variant
               /\ db'.schemas[c.schemaId].name = c.schemaName
               /\ c.versionId \in DOMAIN db'.versions
               /\ db'.versions[c.versionId].schemaId = c.schemaId
               /\ db'.schemas[c.schemaId].activeVersionId = c.versionId
          /\ (c.pc = "insert" /\ Moves(p) /\ c.versionId \in DOMAIN call'[p].tx.versions
                 /\ StoredVersionsOf(c.schemaId) = {}) =>
               call'[p].tx.versions[c.versionId].versionOrder = 1]_vars

\* C17 witness: an accepted non-dry-run deploy that created its logical
\* schema has returned, nothing else is in flight, and the pointer is on its
\* version, which has sequence number 1
C17_Witness ==
  \E p \in Procs :
    /\ Quiescent
    /\ call[p].op = "deploy" /\ ~call[p].dryRun /\ call[p].pc = "returned"
    /\ call[p].resp = "accepted"
    /\ call[p].schemaId = call[p].newSchemaId
    /\ db.schemas[call[p].schemaId].activeVersionId = call[p].versionId
    /\ db.versions[call[p].versionId].versionOrder = 1

\* C18: every attempt row, committed or pending, has finishedAt unset
\* exactly while its status is PENDING, and a row whose finishedAt is set is
\* not written again: it stays as it is for as long as it exists.
C18_FinishedAtOnceAtTerminal ==
  /\ [](\A d \in AttemptIds :
          Attempt(d) # NoRow => (Attempt(d).finishedAt <=> Attempt(d).status # "PENDING"))
  /\ [][\A d \in AttemptIds :
          (Attempt(d) # NoRow /\ Attempt(d).finishedAt) =>
            Attempt(d)' \in {Attempt(d), NoRow}]_vars

\* C18 witness: the ledger holds a finished attempt next to a PENDING one
\* whose finishedAt is unset
C18_Witness ==
  \E d, e \in AttemptIds :
    /\ Attempt(d) # NoRow /\ Attempt(e) # NoRow
    /\ Attempt(d).status = "SUCCEEDED" /\ Attempt(d).finishedAt
    /\ Attempt(e).status = "PENDING" /\ ~Attempt(e).finishedAt

\* C19: an updateStatus call with a status other than FAILED leaves the
\* attempt without failureReason, whatever reason the row held and whatever
\* reason was passed, and every committed attempt that has a failureReason
\* has status FAILED.
C19_ReasonOnlyWhenFailed ==
  /\ \A p \in Procs :
       (call[p].op = "updateStatus" /\ call[p].pc = "returned"
          /\ call[p].ret # NoRow /\ call[p].ret.status # "FAILED") =>
         call[p].ret.failureReason = NoReason
  /\ \A d \in DOMAIN db.deps :
       db.deps[d].failureReason # NoReason => db.deps[d].status = "FAILED"

\* C20: an updateStatus call with the id of no attempt ends with a not-found
\* error, never with a return value, and changes no row of the ledger.
C20_MissingAttemptRaises ==
  [][\A p \in Procs :
       (Arrives(p) /\ call'[p].op = "updateStatus"
          /\ call'[p].depId \notin DOMAIN db.deps) =>
         /\ call'[p].pc = "raised"
         /\ call'[p].err = "NotFound"
         /\ db' = db]_vars

\* C21: a committed SchemaVersion row stays in the store, with every field
\* (SDL, label, sequence number, checksum, logical schema) as committed,
\* through every step of every deploy, dry-run and rollback.
C21_VersionsImmutable ==
  [][\A i \in DOMAIN db.versions :
       i \in DOMAIN db'.versions /\ db'.versions[i] = db.versions[i]]_vars

\* C21 witness: a version committed by one call is stored next to the
\* version that a later deploy committed for the same logical schema
C21_Witness ==
  \E i, j \in DOMAIN db.versions :
    /\ i # j
    /\ db.versions[i].schemaId = db.versions[j].schemaId
    /\ db.versions[i].checksum = ChecksumOf[db.versions[i].schemaSDL]

\* C22: once a deploy has raised on a failed database statement without
\* having had an answer from the platform, it has made no publish call, none
\* of the rows it wrote exists (logical schema, version, attempt) and no
\* pointer references its version.
C22_FailedDbStepLeavesNoTrace ==
  \A p \in Procs :
    (call[p].op = "deploy" /\ call[p].pc = "raised"
       /\ call[p].err \in {"DbError", "UniqueViolation"} /\ call[p].resp = "none") =>
      /\ call[p].pubs = 0
      /\ call[p].newSchemaId \notin DOMAIN db.schemas
      /\ call[p].versionId \notin DOMAIN db.versions
      /\ call[p].depId \notin DOMAIN db.deps
      /\ \A i \in DOMAIN db.schemas : db.schemas[i].activeVersionId # call[p].versionId

\* C22 witness: a deploy that had inserted its logical schema has raised on a
\* failed database statement before any answer from the platform, on a
\* registry that holds an active pointer
C22_Witness ==
  \E p \in Procs :
    /\ call[p].op = "deploy" /\ call[p].pc = "raised" /\ call[p].err = "DbError"
    /\ call[p].resp = "none"
    /\ call[p].schemaId = call[p].newSchemaId
    /\ \E i \in DOMAIN db.schemas : db.schemas[i].activeVersionId # NoId

\* the version the pointer of logical schema (v, n) references, NoId when
\* there is no such logical schema or it has no active version
ActivePointer(v, n) ==
  LET hits == {i \in DOMAIN db.schemas :
                 db.schemas[i].variantId = v /\ db.schemas[i].name = n}
  IN IF hits = {} THEN NoId ELSE db.schemas[CHOOSE i \in hits : TRUE].activeVersionId

\* C23: for every variant and schema name, the query for the active version
\* of that logical schema returns the version its pointer references, and
\* null exactly when there is no such logical schema or no active version,
\* whatever other logical schemas the variant has.
C23_ActiveVersionOfNamedSchema ==
  \A v \in DOMAIN Variants, n \in SchemaNames :
    GetActiveSchema(v) = {ActivePointer(v, n)}

\* C24: two deploys store the same checksum exactly when their SDL texts
\* are the same, character for character.
C24_ChecksumTellsTextsApart ==
  \A p, q \in Procs :
    (call[p].pc = "stored" /\ call[q].pc = "stored") =>
      (call[p].ret.checksum = call[q].ret.checksum <=> call[p].sdl = call[q].sdl)

\* the text consists of white space only
IsBlank(str) == \A i \in 1..Len(str) : str[i] \in WhiteSpace

\* C25: a checkSchema call never ends with an error; it answers isValid =
\* true with no errors exactly when the SDL is not blank and the platform
\* answered CheckRequestSuccess; a blank SDL gets the single error
\* EMPTY_SCHEMA without an upstream call; a negative answer gets isValid =
\* false with the platform's errors coded APOLLO_ERROR; a transport failure
\* gets the single error APOLLO_UNAVAILABLE.
C25_CheckSchemaAnswers ==
  \A p \in Procs :
    (call[p].op = "check" /\ call[p].pc \in Over) =>
      LET c == call[p]
          upstreamErrors == ApolloCheckSchema(c.resp).errors
      IN /\ c.pc = "returned"
         /\ (c.ret.isValid /\ c.ret.errors = <<>>)
              <=> (~IsBlank(c.sdl) /\ c.resp = "success")
         /\ IsBlank(c.sdl) =>
              /\ c.pubs = 0
              /\ ~c.ret.isValid
              /\ Len(c.ret.errors) = 1
              /\ c.ret.errors[1].code = "EMPTY_SCHEMA"
         /\ (~IsBlank(c.sdl) /\ c.resp \in {"invalidInput", "invalidNoMessage", "nodata"}) =>
              /\ c.pubs = 1
              /\ ~c.ret.isValid
              /\ Len(c.ret.errors) = Len(upstreamErrors)
              /\ Len(c.ret.errors) > 0
              /\ \A i \in 1..Len(c.ret.errors) :
                   /\ c.ret.errors[i].code = "APOLLO_ERROR"
                   /\ c.ret.errors[i].message = upstreamErrors[i].message
         /\ (~IsBlank(c.sdl) /\ c.resp \in {"transport", "nobody"}) =>
              /\ ~c.ret.isValid
              /\ Len(c.ret.errors) = 1
              /\ c.ret.errors[1].code = "APOLLO_UNAVAILABLE"

\* C25 witness: a blank SDL has been answered while a check of a document
\* surrounded by white space was answered after a negative platform result
C25_Witness ==
  \E p, q \in Procs :
    /\ call[p].op = "check" /\ call[p].pc = "returned"
    /\ call[q].op = "check" /\ call[q].pc = "returned"
    /\ call[p].sdl = <<10, 9>>
    /\ call[q].sdl # PingSDL /\ call[q].resp = "invalidInput"

\* the api_keys table holds an active row for key k
ActiveKey(table, k) == k \in DOMAIN table /\ table[k].isActive

\* C27: the guard answers true only for a request one of whose key headers
\* holds the key of an active row, and then that row is attached to the
\* request; a request whose key (x-api-key, or X-API-KEY when that is not
\* sent) is missing, unknown or inactive gets UnauthorizedException and no
\* row attached; the guard always answers one or the other.
C27_GuardAdmitsActiveKeysOnly ==
  \A p \in Procs :
    (call[p].op = "guard" /\ call[p].pc # "guard") =>
      LET c == call[p]
          sent == IF c.headers.lower # NoKey THEN c.headers.lower ELSE c.headers.upper
      IN /\ c.pc \in {"returned", "raised"}
         /\ c.pc = "returned" =>
              /\ c.apiKey # NoRow
              /\ c.apiKey.key \in {c.headers.lower, c.headers.upper}
              /\ ActiveKey(db.apiKeys, c.apiKey.key)
              /\ c.apiKey = db.apiKeys[c.apiKey.key]
         /\ ~ActiveKey(db.apiKeys, sent) =>
              /\ c.pc = "raised"
              /\ c.err = "Unauthorized"
         /\ c.pc = "raised" => c.apiKey = NoRow

\* C27 witness: over one table the guard has admitted a request with an
\* active key in X-API-KEY and refused one with an inactive key
C27_Witness ==
  \E p, q \in Procs :
    /\ call[p].op = "guard" /\ call[p].pc = "returned"
    /\ call[p].headers.lower = NoKey
    /\ call[q].op = "guard" /\ call[q].pc = "raised"
    /\ call[q].headers.lower \in DOMAIN db.apiKeys

\* the request carries the key of an active row of the api_keys table
CarriesActiveKey(c) ==
  \/ ActiveKey(ApiKeys, c.headers.lower)
  \/ ActiveKey(ApiKeys, c.headers.upper)

\* C26: a deploySchema, rollbackSchema or checkSchema request is executed
\* only if it carries an X-API-KEY matching an active ApiKey row: every
\* request being served carries such a key, and every step that changes the
\* registry's store or the platform's is the step of such a request.
C26_MutationsNeedActiveKey ==
  /\ [](\A p \in Procs :
          (call[p].op \in {"deploy", "rollback", "check"} /\ call[p].pc \notin Terminal) =>
            CarriesActiveKey(call[p]))
  /\ [][(db' # db \/ upstream' # upstream) =>
          \E p \in Procs : Moves(p) /\ CarriesActiveKey(call[p])]_vars

\* C29: the record deploySchema returns is never null and shows the status
\* written by the deploy's own final updateStatus: what the callback hands
\* back once updateStatus has run with the transaction's manager, and what
\* the call returns, is the attempt row with status SUCCEEDED.
C29_DeployReturnsUpdatedRow ==
  \A p \in Procs :
    (call[p].op = "deploy" /\ call[p].pc \in {"commit", "returned"}) =>
      /\ call[p].ret # NoRow
      /\ call[p].ret.status = "SUCCEEDED"
      /\ call[p].ret.finishedAt

\* C30: every attempt's variantId is the variant that owns the logical schema
\* of the version it references, and a rollback(variantId, versionId) moves
\* the active pointer of no logical schema that belongs to another variant.
C30_AttemptTargetOwnsSchema ==
  /\ [](\A d \in DOMAIN db.deps :
          db.deps[d].schemaVersionId \in DOMAIN db.versions =>
            db.deps[d].variantId =
              db.schemas[db.versions[db.deps[d].schemaVersionId].schemaId].variantId)
  /\ [][\A p \in Procs :
          (Moves(p) /\ call[p].op = "rollback") =>
            \A i \in DOMAIN db.schemas :
              db.schemas[i].variantId # call[p].variant =>
                db'.schemas[i].activeVersionId = db.schemas[i].activeVersionId]_vars

\* C28: a run of the publish script or of the check script sends its mutation
\* at most 3 times; it sends again only after a send that failed at the HTTP
\* or transport level, and a run that ended after such a failure ended after
\* its third send with a non-zero exit code.
C28_ScriptSendsAtMostThrice ==
  \A p \in Procs :
    call[p].op \in {"publishScript", "checkScript"} =>
      /\ call[p].pubs <= 3
      /\ (call[p].pubs > 0 /\ call[p].pc = "send") => call[p].resp \in Thrown
      /\ (call[p].pc = "exited" /\ call[p].resp \in Thrown) =>
           /\ call[p].pubs = 3
           /\ call[p].ret.exitCode # 0

\* C31: publishSchema reports success only for a response that carries a
\* publishSubgraph result with an empty error list, and the attempt of a
\* non-dry-run deploy is recorded as SUCCEEDED only after such a response.
C31_SuccessNeedsPublishResult ==
  \A p \in Procs :
    (call[p].op = "deploy" /\ ~call[p].dryRun /\ call[p].pubs > 0
       /\ call[p].resp # "transport") =>
      /\ PublishResult(call[p].resp).success => call[p].resp = "accepted"
      /\ (call[p].depId \in DOMAIN db.deps
            /\ db.deps[call[p].depId].status = "SUCCEEDED") => call[p].resp = "accepted"

\* C32: a rollback is all-or-nothing: once the call is over, by its answer,
\* by an error or by the death of the process, either no attempt row of the
\* call exists, or its attempt is SUCCEEDED and, at the moment the call ends,
\* the pointer of the version's logical schema references the target version;
\* no PENDING attempt of a rollback is left behind.
C32_RollbackAllOrNothing ==
  /\ [](\A p \in Procs :
          (call[p].op = "rollback" /\ call[p].pc \in Over
             /\ call[p].depId \in DOMAIN db.deps) =>
            db.deps[call[p].depId].status = "SUCCEEDED")
  /\ [][\A p \in Procs :
          (Moves(p) /\ call[p].op = "rollback" /\ call'[p].pc \in Over
             /\ call[p].depId \in DOMAIN db'.deps) =>
            db'.schemas[call[p].schemaId].activeVersionId = call[p].versionId]_vars

\* what the readers outside a transaction may get to see: the versions
\* getActiveSchema and getHistory return, the version a rollback finds, the
\* attempts getDeployments returns
SeenVersions ==
  UNION {GetActiveSchema(v) : v \in DOMAIN Variants}
    \cup UNION {GetHistory(i) : i \in DOMAIN db.schemas}
    \cup {FindVersion(j) : j \in DOMAIN db.versions}
SeenDeployments == UNION {GetDeployments(v) : v \in DOMAIN Variants}

\* C33: while a non-dry-run deploy is in flight no reader outside its
\* transaction observes its version, its attempt row or a pointer to its
\* version, and no other deploy's view holds them; its rows are visible only
\* once its publish was accepted and its transaction has committed.
C33_DeployInvisibleUntilCommitted ==
  \A p \in Procs :
    (call[p].op = "deploy" /\ ~call[p].dryRun) =>
      /\ call[p].pc \notin Terminal =>
           /\ call[p].versionId \notin SeenVersions
           /\ call[p].depId \notin SeenDeployments
           /\ \A q \in Procs \ {p} :
                /\ call[p].versionId \notin DOMAIN View(q).versions
                /\ call[p].depId \notin DOMAIN View(q).deps
      /\ (call[p].versionId \in SeenVersions \/ call[p].depId \in SeenDeployments) =>
           /\ call[p].pc = "returned"
           /\ call[p].resp = "accepted"

\* C34: a non-dry-run deploy calls the platform at most once, and never to
\* validate: it has made no upstream call before its version insert, its
\* PENDING attempt insert and its pointer update are issued in its
\* transaction, exactly one when the publish has answered, and a deploy that
\* returned or raised over a failed or rejected publish made exactly one.
C34_PublishOnceAfterLocalSteps ==
  \A p \in Procs :
    (call[p].op = "deploy" /\ ~call[p].dryRun) =>
      LET c == call[p]
      IN /\ c.pubs <= 1
         /\ c.pc \in {"resolve", "findSchema", "createSchema", "insert", "activate",
                      "publish"} => c.pubs = 0
         /\ c.pc \in {"publish", "failStatus", "okStatus", "commit"} =>
              /\ c.versionId \in DOMAIN c.tx.versions
              /\ c.depId \in DOMAIN c.tx.deps
              /\ c.pc = "publish" => c.tx.deps[c.depId].status = "PENDING"
              /\ c.schemaId \in DOMAIN c.tx.ptr
              /\ c.tx.ptr[c.schemaId] = c.versionId
         /\ c.pc \in {"failStatus", "okStatus", "commit"} => c.pubs = 1
         /\ (c.pc = "returned" \/ PublishFailedRaised(p)) => c.pubs = 1
         /\ c.pubs = 1 => c.resp \in Responses

\* C34 witness: one deploy raised over a publish that failed, another
\* returned, each after one upstream call
C34_Witness ==
  \E p, q \in Procs :
    /\ PublishFailedRaised(p) /\ call[p].pubs = 1
    /\ call[q].op = "deploy" /\ ~call[q].dryRun /\ call[q].pc = "returned"
    /\ call[q].pubs = 1

\* C35: when deploys do not overlap, the committed versions of each logical
\* schema carry the sequence numbers 1..k, each once, in the order of their
\* creation; the version of a dry-run that returned is among them, the
\* version of a deploy whose publish failed is not.
C35_SequentialNumbersDense ==
  /\ \A i \in DOMAIN db.schemas :
       /\ {db.versions[j].versionOrder : j \in VersionsOf(i)} =
            1..Cardinality(VersionsOf(i))
       /\ \A j, k \in VersionsOf(i) :
            j < k => db.versions[j].versionOrder < db.versions[k].versionOrder
  /\ \A p \in Procs :
       /\ (call[p].op = "deploy" /\ call[p].dryRun /\ call[p].pc = "returned") =>
            call[p].versionId \in VersionsOf(call[p].schemaId)
       /\ PublishFailedRaised(p) => call[p].versionId \notin DOMAIN db.versions

\* C35 witness: a dry-run took number 1 of a logical schema and a later
\* accepted deploy took number 2
C35_Witness ==
  \E i \in DOMAIN db.schemas :
    \E j, k \in VersionsOf(i) :
      /\ db.versions[j].versionOrder = 1
      /\ db.versions[k].versionOrder = 2
      /\ db.schemas[i].activeVersionId = k
      /\ \E p \in Procs : call[p].pc = "returned" /\ call[p].versionId = k

\* C36: the active pointer of every logical schema is unset or the id of a
\* stored version of that same logical schema, and a pointer that was unset,
\* or whose schema row is new, gets set only by the step of a non-dry-run
\* deploy to that schema whose publish the platform accepted, or of a
\* rollback within that schema.
C36_PointerOwnedAndUnsetUntilAccepted ==
  /\ [](\A i \in DOMAIN db.schemas :
          \/ db.schemas[i].activeVersionId = NoId
          \/ /\ db.schemas[i].activeVersionId \in DOMAIN db.versions
             /\ db.versions[db.schemas[i].activeVersionId].schemaId = i)
  /\ [][\A i \in DOMAIN db'.schemas :
          (/\ db'.schemas[i].activeVersionId # NoId
           /\ i \in DOMAIN db.schemas => db.schemas[i].activeVersionId = NoId) =>
            \E p \in Procs :
              /\ Moves(p)
              /\ call[p].schemaId = i
              /\ \/ call[p].op = "rollback"
                 \/ call[p].op = "deploy" /\ ~call[p].dryRun /\ call[p].resp = "accepted"]_vars

\* C37: with a pool of N connections, N concurrent deploys never all wait
\* for a connection: as long as a deploy has not answered, some deploy can
\* take its next step.
C37_PoolNeverExhausted ==
  (\E p \in Procs : call[p].pc \notin Over) => ENABLED NextPool

====
